---- MODULE Spec2Model ----
(***************************************************************************)
(* A model of the scheduling helper: the free-slot walk over one day's     *)
(* busy intervals, the duration filter over all dates, the containment     *)
(* check, the four query services and the command line's main().           *)
(*                                                                         *)
(* Times of day are integers 0..MaxTime (one unit is one step of the       *)
(* clock), a timedelta is an integer number of units, a date is a positive *)
(* integer, and a date string is a record of the date it denotes and the   *)
(* form it is written in, so that strptime and strftime are conversions    *)
(* and not the identity.  An insertion-ordered dict is a sequence of       *)
(* entries.  An exception is the non-empty string of its message.         *)
(***************************************************************************)
EXTENDS Integers, Sequences, FiniteSets, TLC

VARIABLES
    schedule,   \* the ScheduleType object the core functions are called on
    call,       \* the last operation and its arguments
    ret,        \* what the last operation returned (None when it raised)
    raised,     \* the exception that escaped the last operation ("" when none)
    caught,     \* the exception exception_handler caught in it ("" when none)
    out,        \* the lines the last operation printed
    fetches,    \* the number of requests.get calls the last operation made
    argv,       \* the parsed command line (main only)
    pc          \* the position in main() (main only)

vars == <<schedule, call, ret, raised, caught, out, fetches, argv, pc>>

(***************************************************************************)
(* Bounds                                                                  *)
(***************************************************************************)
MaxTime == 4        \* clock units in the single-day inputs
MaxBusy == 3        \* busy intervals of the single-day inputs
MaxFree == 2        \* free intervals handed to can_schedule_slot
MaxDays == 2        \* dates of the multi-day inputs
SchedMaxTime == 3   \* clock units in the multi-day inputs
MaxRawDays == 2     \* days in a raw data set given to format_data
MaxRawSlots == 2    \* timeslots in a raw data set given to format_data
RawMaxTime == 2     \* clock units in a raw data set given to format_data

None == "None"
NoError == ""

Times == 0..MaxTime

(***************************************************************************)
(* Values (src/src/shemas.py)                                              *)
(***************************************************************************)
Day(id, date, start, end) == [id |-> id, date |-> date, start |-> start, end |-> end]

TimeSlot(day_id, start, end) == [day_id |-> day_id, start |-> start, end |-> end]

Slot(date, start, end) == [date |-> date, start |-> start, end |-> end]

Entry(key, day, slots) == [key |-> key, day |-> day, slots |-> slots]

(***************************************************************************)
(* Date strings.  "iso" is the zero-padded YYYY-MM-DD text strftime        *)
(* writes; "short" is a text strptime accepts that strftime never writes   *)
(* (2024-1-5); "spaced" is the iso text with blanks around it, which       *)
(* strptime rejects unless it is stripped first; "bad" denotes no date.    *)
(***************************************************************************)
DateStr(date, form) == [date |-> date, form |-> form]

strftime_date(date) == DateStr(date, "iso")

strip_date(str) == IF str.form = "spaced" THEN DateStr(str.date, "iso") ELSE str

strptime_ok(str) == str.form \in {"iso", "short"}

strptime_date(str) == str.date

(***************************************************************************)
(* dict operations on a sequence of entries                                *)
(***************************************************************************)
Keys(dict) == {dict[i].key : i \in 1..Len(dict)}

HasKey(dict, key) == \E i \in 1..Len(dict) : dict[i].key = key

IndexOf(dict, key) == CHOOSE i \in 1..Len(dict) : dict[i].key = key

Get(dict, key) == dict[IndexOf(dict, key)]

(***************************************************************************)
(* time_diff: the timedelta time_1 - time_2                                *)
(***************************************************************************)
time_diff(time_1, time_2) == time_1 - time_2

(***************************************************************************)
(* model_copy(deep=True): the copy is an object of its own, so writing to  *)
(* it leaves the Day stored in the schedule alone.  "shared" says whether  *)
(* the returned object is the stored one.                                  *)
(***************************************************************************)
\* A copy that is the stored object itself (a shallow alias), for comparison.
model_copy_alias(day) == [obj |-> day, shared |-> TRUE]

model_copy(day) == [obj |-> day, shared |-> FALSE]

(***************************************************************************)
(* free_slots_at_date: the walk over the busy list.  "start" is day.start  *)
(* of the copied Day, which the loop overwrites as its cursor.             *)
(***************************************************************************)
\* Variants of the loop body, for comparison: the cursor left in place when a
\* busy interval starts at it, and the cursor moved to slot.start after a gap.
WalkStepNoAdvance(start, slot) ==
    IF start = slot.start
    THEN [start |-> start, emit |-> <<>>]
    ELSE IF start < slot.start
         THEN [start |-> slot.end,
               emit  |-> <<TimeSlot(slot.day_id, start, slot.start)>>]
         ELSE [start |-> start, emit |-> <<>>]

WalkStepGapToStart(start, slot) ==
    IF start = slot.start
    THEN [start |-> slot.end, emit |-> <<>>]
    ELSE IF start < slot.start
         THEN [start |-> slot.start,
               emit  |-> <<TimeSlot(slot.day_id, start, slot.start)>>]
         ELSE [start |-> start, emit |-> <<>>]

\* The loop body: "if day.start == slot.start ... elif day.start < slot.start".
WalkStep(start, slot) ==
    IF start = slot.start
    THEN [start |-> slot.end, emit |-> <<>>]
    ELSE IF start < slot.start
         THEN [start |-> slot.end,
               emit  |-> <<TimeSlot(slot.day_id, start, slot.start)>>]
         ELSE [start |-> start, emit |-> <<>>]

RECURSIVE Walk(_, _, _, _)
Walk(start, slots, i, free_slots) ==
    IF i > Len(slots)
    THEN [start |-> start, free_slots |-> free_slots]
    ELSE LET step == WalkStep(start, slots[i])
         IN  Walk(step.start, slots, i + 1, free_slots \o step.emit)

\* Variant, for comparison: the final gap appended without the != test.
WalkTailAlways(day, walk) ==
    walk.free_slots \o <<TimeSlot(day.id, walk.start, day.end)>>

\* "if day.start != day.end": the gap after the last busy interval.
WalkTail(day, walk) ==
    IF walk.start # day.end
    THEN walk.free_slots \o <<TimeSlot(day.id, walk.start, day.end)>>
    ELSE walk.free_slots

\* The schedule after the call: the stored Day is written only if the walk's
\* Day object is the stored one.
StoreDay(dict, key, copy, start) ==
    IF copy.shared
    THEN [dict EXCEPT ![IndexOf(dict, key)].day.start = start]
    ELSE dict

free_slots_at_date(sched, date_key) ==
    LET str_date == strftime_date(date_key)
    IN  IF ~HasKey(sched, str_date)
        THEN [ret |-> <<>>, schedule |-> sched]
        ELSE LET entry == Get(sched, str_date)
                 copy  == model_copy(entry.day)
                 walk  == Walk(copy.obj.start, entry.slots, 1, <<>>)
             IN  [ret      |-> WalkTail(copy.obj, walk),
                  schedule |-> StoreDay(sched, str_date, copy, walk.start)]

(***************************************************************************)
(* find_suitable_slot                                                      *)
(***************************************************************************)
InvalidDuration == "ValueError: Invalid duration. Must be a positive timedelta."
InvalidKey == "ValueError: time data does not match format '%Y-%m-%d'"

\* Variants, for comparison: zero accepted; equal length rejected.
DurationInvalidStrict(duration) == duration < 0

DurationInvalid(duration) == duration <= 0

FitsStrict(slot, duration) == time_diff(slot.end, slot.start) > duration

Fits(slot, duration) == time_diff(slot.end, slot.start) >= duration

SelectFits(free_slots, duration) ==
    SelectSeq(free_slots, LAMBDA x : Fits(x, duration))

\* Variant, for comparison: the date put in front of the earlier ones.
PutFront(suitable_schedule, key, day, suitable_slots) ==
    IF suitable_slots = <<>>
    THEN suitable_schedule
    ELSE <<Entry(key, day, suitable_slots)>> \o suitable_schedule

\* "if not suitable_slots: continue", else suitable_schedule[key] = (...):
\* the keys of the input are distinct, so the assignment appends.
Put(suitable_schedule, key, day, suitable_slots) ==
    IF suitable_slots = <<>>
    THEN suitable_schedule
    ELSE Append(suitable_schedule, Entry(key, day, suitable_slots))

RECURSIVE SuitableLoop(_, _, _, _)
SuitableLoop(sched, duration, i, suitable_schedule) ==
    IF i > Len(sched)
    THEN [raised |-> NoError, ret |-> suitable_schedule, schedule |-> sched]
    ELSE LET key == sched[i].key
         IN  IF ~strptime_ok(key)
             THEN [raised |-> InvalidKey, ret |-> None, schedule |-> sched]
             ELSE LET free == free_slots_at_date(sched, strptime_date(key))
                      suitable_slots == SelectFits(free.ret, duration)
                  IN  SuitableLoop(free.schedule, duration, i + 1,
                                   Put(suitable_schedule, key,
                                       free.schedule[i].day, suitable_slots))

find_suitable_slot(sched, duration) ==
    IF DurationInvalid(duration)
    THEN [raised |-> InvalidDuration, ret |-> None, schedule |-> sched]
    ELSE SuitableLoop(sched, duration, 1, <<>>)

(***************************************************************************)
(* check_time_boundaries, can_schedule_slot                                *)
(***************************************************************************)
\* Variant, for comparison: equal bounds not counted as contained.
check_time_boundaries_strict(slot, other) ==
    other.start < slot.start /\ slot.end < other.end

check_time_boundaries(slot, other) ==
    other.start <= slot.start /\ slot.end <= other.end

can_schedule_slot(slot, free_slots) ==
    IF free_slots = <<>>
    THEN FALSE
    ELSE \E i \in 1..Len(free_slots) : check_time_boundaries(slot, free_slots[i])

(***************************************************************************)
(* Stable sort, as sorted(seq, key=...): position i of seq goes to the     *)
(* place given by the number of elements that sort before it.              *)
(***************************************************************************)
Rank(keys, i) ==
    1 + Cardinality({j \in DOMAIN keys :
                        keys[j] < keys[i] \/ (keys[j] = keys[i] /\ j < i)})

StableSort(seq, keys) ==
    [r \in 1..Len(seq) |-> seq[CHOOSE i \in 1..Len(seq) : Rank(keys, i) = r]]

\* dict[key] = value: a key already there keeps its place.
DictSet(dict, entry) ==
    IF HasKey(dict, entry.key)
    THEN [dict EXCEPT ![IndexOf(dict, entry.key)] = entry]
    ELSE Append(dict, entry)

(***************************************************************************)
(* request_data: one requests.get, whose outcome is the response.          *)
(***************************************************************************)
HttpOk == 200
HttpNotFound == 404

RawTimeSlot(id, day_id, start, end) ==
    [id |-> id, day_id |-> day_id, start |-> start, end |-> end]

RawTimeData(days, timeslots) == [valid |-> TRUE, days |-> days, timeslots |-> timeslots]

InvalidBody == [valid |-> FALSE, days |-> <<>>, timeslots |-> <<>>]

TimeoutResponse == [kind |-> "timeout", status |-> 0, body |-> InvalidBody]

HttpResponse(status, body) == [kind |-> "http", status |-> status, body |-> body]

Timeout == "Timeout"
RequestFailed == "RequestException: Failed to retrieve data."
InvalidData == "ValueError: Received invalid schedule data."

request_data(response) ==
    IF response.kind = "timeout"
    THEN [raised |-> Timeout, ret |-> None]
    ELSE IF response.status # HttpOk
         THEN [raised |-> RequestFailed, ret |-> None]
         ELSE IF ~response.body.valid
              THEN [raised |-> InvalidData, ret |-> None]
              ELSE [raised |-> NoError, ret |-> response.body]

(***************************************************************************)
(* format_data                                                             *)
(***************************************************************************)
\* Variant, for comparison: the day's timeslots filtered and left unsorted.
DayTimeslotsUnsorted(raw_data, day) ==
    SelectSeq(raw_data.timeslots, LAMBDA x : x.day_id = day.id)

DayTimeslots(raw_data, day) ==
    LET timeslots == SelectSeq(raw_data.timeslots, LAMBDA x : x.day_id = day.id)
    IN  StableSort(timeslots, [i \in 1..Len(timeslots) |-> timeslots[i].start])

RECURSIVE FormatLoop(_, _, _, _)
FormatLoop(raw_data, sorted_days, i, data) ==
    IF i > Len(sorted_days)
    THEN data
    ELSE LET day == sorted_days[i]
         IN  FormatLoop(raw_data, sorted_days, i + 1,
                        DictSet(data, Entry(strftime_date(day.date), day,
                                            DayTimeslots(raw_data, day))))

format_data(raw_data) ==
    LET sorted_days ==
            StableSort(raw_data.days,
                       [i \in 1..Len(raw_data.days) |-> raw_data.days[i].date])
    IN  FormatLoop(raw_data, sorted_days, 1, <<>>)

(***************************************************************************)
(* parse_slot_input.  The text is the sequence of its blank-separated      *)
(* tokens (what strip().split() gives): a date text, then time tokens,     *)
(* each the sequence of its "-"-separated parts; a part is a time text.    *)
(***************************************************************************)
TimeStr(time) == [ok |-> TRUE, time |-> time]

BadTime == [ok |-> FALSE, time |-> 0]

BadDate == DateStr(0, "bad")

InvalidSlotFormat ==
    "ValueError: Invalid slot format. Provide a date and a time range in the format: 'YYYY-MM-DD HH:MM-HH:MM'."
StartNotBeforeEnd == "ValueError: Start time must be before end time"
IndexError == "IndexError: list index out of range"

\* The strings time[0] and time[-1] are read from: the parts of the single
\* time token, or else the time tokens themselves (a token of several parts
\* holds a "-" and is no %H:%M text).
TimeTexts(tokens) ==
    LET time == Tail(tokens)
    IN  IF Len(time) = 1
        THEN time[1]
        ELSE [i \in 1..Len(time) |->
                IF Len(time[i]) = 1 THEN time[i][1] ELSE BadTime]

parse_slot_input(tokens) ==
    IF tokens = <<>>
    THEN [raised |-> InvalidSlotFormat, ret |-> None]
    ELSE LET texts == TimeTexts(tokens)
         IN  IF ~strptime_ok(tokens[1])
             THEN [raised |-> InvalidSlotFormat, ret |-> None]
             ELSE IF texts = <<>>
             THEN [raised |-> IndexError, ret |-> None]
             ELSE IF ~texts[1].ok \/ ~texts[Len(texts)].ok
             THEN [raised |-> InvalidSlotFormat, ret |-> None]
             ELSE IF texts[1].time >= texts[Len(texts)].time
             THEN [raised |-> StartNotBeforeEnd, ret |-> None]
             ELSE [raised |-> NoError,
                   ret    |-> Slot(strptime_date(tokens[1]), texts[1].time,
                                   texts[Len(texts)].time)]

(***************************************************************************)
(* duration_str_to_timedelta.  A duration text is "H:M" denoting a number  *)
(* of clock units (negative numbers are read as such), or no such text.    *)
(***************************************************************************)
DurationStr(units) == [ok |-> TRUE, units |-> units]

BadDuration == [ok |-> FALSE, units |-> 0]

InvalidInt == "ValueError: invalid literal for int() with base 10"

duration_str_to_timedelta(duration_str) ==
    IF ~duration_str.ok
    THEN [raised |-> InvalidInt, ret |-> None]
    ELSE [raised |-> NoError, ret |-> duration_str.units]

(***************************************************************************)
(* Printed lines                                                           *)
(***************************************************************************)
ErrorLine(message) == [kind |-> "ERROR", text |-> message]

TextLine(text) == [kind |-> "text", text |-> text]

TitleLine(title) == [kind |-> "title", text |-> title]

RuleLine == [kind |-> "rule", text |-> "----"]

DayLine(key) == [kind |-> "day", key |-> key]

SlotLine(slot) == [kind |-> "slot", start |-> slot.start, end |-> slot.end]

UnavailableLine(slot) == [kind |-> "unavailable", slot |-> slot]

NoFreeLine(raw_date) == [kind |-> "no free slots", key |-> raw_date]

NoSlotsForDate == "Sorry, no slots are available for the selected date."
CanBeScheduled == "The slot can be scheduled at the selected time."
NoSuitable == "No suitable free slots found."
NoSchedule == "ValueError: No schedule found."
KeyError == "KeyError"

(***************************************************************************)
(* display_schedule                                                        *)
(***************************************************************************)
RECURSIVE DisplayDays(_, _, _)
DisplayDays(sched, i, skip_empty) ==
    IF i > Len(sched)
    THEN <<>>
    ELSE IF sched[i].slots = <<>> /\ skip_empty
         THEN DisplayDays(sched, i + 1, skip_empty)
         ELSE <<DayLine(sched[i].key)>>
                \o [j \in 1..Len(sched[i].slots) |-> SlotLine(sched[i].slots[j])]
                \o DisplayDays(sched, i + 1, skip_empty)

Heading(title) == IF title # "" THEN TitleLine(title) ELSE RuleLine

\* Variant, for comparison: the heading printed before the emptiness test.
display_schedule_heading_first(sched, title, skip_empty) ==
    IF sched = <<>>
    THEN [raised |-> NoSchedule, out |-> <<Heading(title)>>]
    ELSE [raised |-> NoError,
          out    |-> <<Heading(title)>> \o DisplayDays(sched, 1, skip_empty)
                        \o <<RuleLine>>]

display_schedule(sched, title, skip_empty) ==
    IF sched = <<>>
    THEN [raised |-> NoSchedule, out |-> <<>>]
    ELSE [raised |-> NoError,
          out    |-> <<Heading(title)>> \o DisplayDays(sched, 1, skip_empty)
                        \o <<RuleLine>>]

(***************************************************************************)
(* exception_handler: what the decorated function does becomes what the    *)
(* caller sees.  A function's outcome is the exception it raised, the      *)
(* lines it printed until then, its return value and its fetches.          *)
(***************************************************************************)
Outcome(exc, lines, value, n) ==
    [raised |-> exc, caught |-> NoError, out |-> lines, ret |-> value, fetches |-> n]

exception_handler(r) ==
    IF r.raised = NoError
    THEN r
    ELSE [raised  |-> NoError,
          caught  |-> r.raised,
          out     |-> r.out \o <<ErrorLine(r.raised)>>,
          ret     |-> None,
          fetches |-> r.fetches]

(***************************************************************************)
(* The services (src/src/services.py), undecorated and decorated           *)
(***************************************************************************)
\* Variant, for comparison: the test for an empty free list left out.
check_slot_body_no_empty_test(raw_slot, response) ==
    LET parsed == parse_slot_input(raw_slot)
    IN  IF parsed.raised # NoError
        THEN Outcome(parsed.raised, <<>>, None, 0)
        ELSE LET raw_schedule == request_data(response)
             IN  IF raw_schedule.raised # NoError
                 THEN Outcome(raw_schedule.raised, <<>>, None, 1)
                 ELSE LET slot == parsed.ret
                          sched == format_data(raw_schedule.ret)
                          free_slots == free_slots_at_date(sched, slot.date).ret
                      IN  IF can_schedule_slot(slot, free_slots)
                          THEN Outcome(NoError, <<TextLine(CanBeScheduled)>>, TRUE, 1)
                          ELSE Outcome(NoError, <<UnavailableLine(slot)>>, FALSE, 1)

check_slot_body(raw_slot, response) ==
    LET parsed == parse_slot_input(raw_slot)
    IN  IF parsed.raised # NoError
        THEN Outcome(parsed.raised, <<>>, None, 0)
        ELSE LET raw_schedule == request_data(response)
             IN  IF raw_schedule.raised # NoError
                 THEN Outcome(raw_schedule.raised, <<>>, None, 1)
                 ELSE LET slot == parsed.ret
                          sched == format_data(raw_schedule.ret)
                          free_slots == free_slots_at_date(sched, slot.date).ret
                      IN  IF free_slots = <<>>
                          THEN Outcome(NoError, <<TextLine(NoSlotsForDate)>>, FALSE, 1)
                          ELSE IF can_schedule_slot(slot, free_slots)
                          THEN Outcome(NoError, <<TextLine(CanBeScheduled)>>, TRUE, 1)
                          ELSE Outcome(NoError, <<UnavailableLine(slot)>>, FALSE, 1)

check_slot(raw_slot, response) == exception_handler(check_slot_body(raw_slot, response))

show_busy_body(response) ==
    LET raw_time_data == request_data(response)
    IN  IF raw_time_data.raised # NoError
        THEN Outcome(raw_time_data.raised, <<>>, None, 1)
        ELSE LET sched == format_data(raw_time_data.ret)
                 shown == display_schedule(sched, "Busy slots", FALSE)
             IN  IF shown.raised # NoError
                 THEN Outcome(shown.raised, shown.out, None, 1)
                 ELSE Outcome(NoError, shown.out, sched, 1)

show_busy(response) == exception_handler(show_busy_body(response))

find_free_slots_body(raw_date, response) ==
    IF ~strptime_ok(strip_date(raw_date))
    THEN Outcome(InvalidKey, <<>>, None, 0)
    ELSE LET date == strptime_date(strip_date(raw_date))
             raw_time_data == request_data(response)
         IN  IF raw_time_data.raised # NoError
             THEN Outcome(raw_time_data.raised, <<>>, None, 1)
             ELSE LET sched == format_data(raw_time_data.ret)
                      free_slots == free_slots_at_date(sched, date).ret
                  IN  IF free_slots # <<>>
                      THEN IF ~HasKey(sched, raw_date)
                           THEN Outcome(KeyError, <<>>, None, 1)
                           ELSE LET shown == display_schedule(
                                        <<Entry(raw_date, Get(sched, raw_date).day,
                                                free_slots)>>,
                                        "Free slots", FALSE)
                                IN  IF shown.raised # NoError
                                    THEN Outcome(shown.raised, shown.out, None, 1)
                                    ELSE Outcome(NoError, shown.out, free_slots, 1)
                      ELSE Outcome(NoError, <<NoFreeLine(raw_date)>>, None, 1)

find_free_slots(raw_date, response) ==
    exception_handler(find_free_slots_body(raw_date, response))

find_slot_body(raw_duration, response) ==
    LET duration == duration_str_to_timedelta(raw_duration)
    IN  IF duration.raised # NoError
        THEN Outcome(duration.raised, <<>>, None, 0)
        ELSE LET raw_time_data == request_data(response)
             IN  IF raw_time_data.raised # NoError
                 THEN Outcome(raw_time_data.raised, <<>>, None, 1)
                 ELSE LET sched == format_data(raw_time_data.ret)
                          suitable_slots == find_suitable_slot(sched, duration.ret)
                      IN  IF suitable_slots.raised # NoError
                          THEN Outcome(suitable_slots.raised, <<>>, None, 1)
                          ELSE IF Len(suitable_slots.ret) > 0
                          THEN LET shown == display_schedule(suitable_slots.ret,
                                                "Suitable free slots", TRUE)
                               IN  IF shown.raised # NoError
                                   THEN Outcome(shown.raised, shown.out, None, 1)
                                   ELSE Outcome(NoError, shown.out, suitable_slots.ret, 1)
                          ELSE Outcome(NoError, <<TextLine(NoSuitable)>>, None, 1)

find_slot(raw_duration, response) ==
    exception_handler(find_slot_body(raw_duration, response))

(***************************************************************************)
(* Inputs                                                                  *)
(***************************************************************************)
SeqsUpTo(S, n) == UNION {[1..k -> S] : k \in 0..n}

SortedByStart(slots) ==
    \A i \in 1..Len(slots) - 1 : slots[i].start <= slots[i + 1].start

\* Busy intervals: start < end (spec.md section 3).
TimeSlots(day_id, T) ==
    {TimeSlot(day_id, se[1], se[2]) : se \in {x \in (0..T) \X (0..T) : x[1] < x[2]}}

\* Working-hours windows: start <= end (spec.md section 3 asks start < end;
\* the empty window is kept, the code accepts it).
Days(date, T) ==
    {Day(date, date, se[1], se[2]) : se \in {x \in (0..T) \X (0..T) : x[1] <= x[2]}}

\* format_data sorts each date's busy list by start and nothing more.
BusyLists(day_id, T, n) ==
    {slots \in SeqsUpTo(TimeSlots(day_id, T), n) : SortedByStart(slots)}

NonOverlapping(slots) ==
    \A i \in 1..Len(slots) - 1 : slots[i].end <= slots[i + 1].start

Within(day, slots) ==
    \A i \in 1..Len(slots) : day.start <= slots[i].start /\ slots[i].end <= day.end

\* One date, any window, any sorted busy list.
DayBusyLists == BusyLists(1, MaxTime, MaxBusy)

DaySchedules ==
    {<<Entry(strftime_date(1), day, slots)>> :
        day \in Days(1, MaxTime), slots \in DayBusyLists}

\* Several dates of a feed that keeps the data model's invariants: every day
\* works 0..SchedMaxTime and its busy intervals lie in the window and do not
\* overlap (so at most SchedMaxTime of them).
FeedBusyLists ==
    {slots \in BusyLists(0, SchedMaxTime, SchedMaxTime) : NonOverlapping(slots)}

\* Which dates the feed has (Absent: none) and each one's busy list.
Absent == [present |-> FALSE, slots |-> <<>>]

FeedChoices ==
    [1..MaxDays -> {Absent} \cup {[present |-> TRUE, slots |-> s] : s \in FeedBusyLists}]

FeedEntry(date, slots) ==
    Entry(strftime_date(date), Day(date, date, 0, SchedMaxTime),
          [i \in 1..Len(slots) |-> TimeSlot(date, slots[i].start, slots[i].end)])

\* Dates ascending, as format_data inserts them.
RECURSIVE FeedSchedule(_, _)
FeedSchedule(choice, date) ==
    IF date > MaxDays
    THEN <<>>
    ELSE IF ~choice[date].present
         THEN FeedSchedule(choice, date + 1)
         ELSE <<FeedEntry(date, choice[date].slots)>> \o FeedSchedule(choice, date + 1)

Dates == 1..(MaxDays + 1)
Durations == (0 - 1)..SchedMaxTime

\* Requested slots: parse_slot_input lets only start < end through.
Slots == {Slot(1, se[1], se[2]) : se \in {x \in Times \X Times : x[1] < x[2]}}

\* Lists of free intervals handed to can_schedule_slot: any order.
FreeLists == SeqsUpTo(TimeSlots(1, MaxTime), MaxFree)

(***************************************************************************)
(* The core functions, each applied to inputs drawn by the initial state.  *)
(* pc is "call" before the function has run and "returned" after; a       *)
(* function may be called again on the same inputs.                        *)
(***************************************************************************)
FreeCall(date_key) == [name |-> "free_slots_at_date", date_key |-> date_key]

SuitableCall(duration) == [name |-> "find_suitable_slot", duration |-> duration]

CanCall(slot, free_slots) ==
    [name |-> "can_schedule_slot", slot |-> slot, free_slots |-> free_slots]

Fresh ==
    /\ ret = None
    /\ raised = NoError
    /\ caught = NoError
    /\ out = <<>>
    /\ fetches = 0
    /\ argv = None
    /\ pc = "call"

InitDay ==
    /\ schedule \in DaySchedules
    /\ call \in {FreeCall(d) : d \in 1..2}
    /\ Fresh

InitSched ==
    /\ \E choice \in FeedChoices : schedule = FeedSchedule(choice, 1)
    /\ call \in {FreeCall(d) : d \in Dates} \cup {SuitableCall(m) : m \in Durations}
    /\ Fresh

InitCan ==
    /\ schedule = <<>>
    /\ call \in {CanCall(r, F) : r \in Slots, F \in FreeLists}
    /\ Fresh

CallFreeSlots ==
    /\ pc \in {"call", "returned"}
    /\ call.name = "free_slots_at_date"
    /\ LET r == free_slots_at_date(schedule, call.date_key)
       IN  /\ ret' = r.ret
           /\ raised' = NoError
           /\ schedule' = r.schedule
    /\ pc' = "returned"
    /\ UNCHANGED <<call, caught, out, fetches, argv>>

CallSuitable ==
    /\ pc \in {"call", "returned"}
    /\ call.name = "find_suitable_slot"
    /\ LET r == find_suitable_slot(schedule, call.duration)
       IN  /\ ret' = r.ret
           /\ raised' = r.raised
           /\ schedule' = r.schedule
    /\ pc' = "returned"
    /\ UNCHANGED <<call, caught, out, fetches, argv>>

CallCanSchedule ==
    /\ pc \in {"call", "returned"}
    /\ call.name = "can_schedule_slot"
    /\ ret' = can_schedule_slot(call.slot, call.free_slots)
    /\ raised' = NoError
    /\ pc' = "returned"
    /\ UNCHANGED <<schedule, call, caught, out, fetches, argv>>

NextDay == CallFreeSlots

NextSched == CallFreeSlots \/ CallSuitable

NextCan == CallCanSchedule

SpecDay == InitDay /\ [][NextDay]_vars

SpecSched == InitSched /\ [][NextSched]_vars

SpecCan == InitCan /\ [][NextCan]_vars

Returned(name) == pc = "returned" /\ call.name = name

(***************************************************************************)
(* format_data called on a raw data set drawn by the initial state: days   *)
(* in any order, with ids and dates that may repeat, and timeslots in any  *)
(* order, numbered as they come, of a day of the set or of none.           *)
(***************************************************************************)
RawDays == {Day(c[1], c[2], 0, RawMaxTime) : c \in (1..MaxDays) \X (1..MaxDays)}

RawDayLists == SeqsUpTo(RawDays, MaxRawDays)

RawSlotChoices == (1..MaxDays) \X (0..(RawMaxTime - 1))

RawSlotLists ==
    {[i \in 1..Len(c) |-> RawTimeSlot(i, c[i][1], c[i][2], c[i][2] + 1)] :
        c \in SeqsUpTo(RawSlotChoices, MaxRawSlots)}

FormatCall(raw_data) == [name |-> "format_data", raw_data |-> raw_data]

InitFormat ==
    /\ schedule = <<>>
    /\ call \in {FormatCall(RawTimeData(c[1], c[2])) : c \in RawDayLists \X RawSlotLists}
    /\ Fresh

CallFormatData ==
    /\ pc \in {"call", "returned"}
    /\ call.name = "format_data"
    /\ ret' = format_data(call.raw_data)
    /\ raised' = NoError
    /\ pc' = "returned"
    /\ UNCHANGED <<schedule, call, caught, out, fetches, argv>>

NextFormat == CallFormatData

SpecFormat == InitFormat /\ [][NextFormat]_vars

(***************************************************************************)
(* The services, each called once (or again) on a raw argument and a       *)
(* response of the data provider drawn by the initial state.               *)
(***************************************************************************)
\* The feeds: no day; or date 1 working 0..SchedMaxTime with a busy list
\* that keeps the data model's invariants, with or without a date 2 that
\* has no busy interval.  Days and timeslots arrive latest first.
RawSlotsOf(slots) ==
    [i \in 1..Len(slots) |->
        RawTimeSlot(i, 1, slots[Len(slots) + 1 - i].start, slots[Len(slots) + 1 - i].end)]

QueryFeeds ==
    {RawTimeData(<<>>, <<>>), RawTimeData(<<Day(2, 2, 0, SchedMaxTime)>>, <<>>)}
        \cup {RawTimeData(<<Day(1, 1, 0, SchedMaxTime)>>, RawSlotsOf(slots)) :
                slots \in FeedBusyLists}
        \cup {RawTimeData(<<Day(2, 2, 0, SchedMaxTime), Day(1, 1, 0, SchedMaxTime)>>,
                          RawSlotsOf(slots)) : slots \in FeedBusyLists}

Responses ==
    {TimeoutResponse, HttpResponse(HttpNotFound, InvalidBody),
     HttpResponse(HttpOk, InvalidBody)}
        \cup {HttpResponse(HttpOk, feed) : feed \in QueryFeeds}

QueryDateTexts == {DateStr(1, "iso"), DateStr(2, "iso"), DateStr(1, "short"), BadDate}

QueryTimeTexts == {TimeStr(t) : t \in 0..SchedMaxTime} \cup {BadTime}

\* "", "D", "D A", "D A-B", "D A B"
RawSlotTexts ==
    {<<>>}
        \cup {<<d>> : d \in QueryDateTexts}
        \cup {<<d, <<a>>>> : d \in QueryDateTexts, a \in QueryTimeTexts}
        \cup {<<d, <<a, b>>>> : d \in QueryDateTexts, a \in QueryTimeTexts,
                                 b \in QueryTimeTexts}
        \cup {<<d, <<a>>, <<b>>>> : d \in QueryDateTexts, a \in QueryTimeTexts,
                                     b \in QueryTimeTexts}

RawDateTexts ==
    {DateStr(d, form) : d \in 1..2, form \in {"iso", "short", "spaced"}} \cup {BadDate}

RawDurationTexts == {DurationStr(m) : m \in Durations} \cup {BadDuration}

QueryCall(name, raw, response) == [name |-> name, raw |-> raw, response |-> response]

QueryCalls ==
    {QueryCall("check_slot", raw, response) :
        raw \in RawSlotTexts, response \in Responses}
        \cup {QueryCall("show_busy", <<>>, response) : response \in Responses}
        \cup {QueryCall("find_free_slots", raw, response) :
                raw \in RawDateTexts, response \in Responses}
        \cup {QueryCall("find_slot", raw, response) :
                raw \in RawDurationTexts, response \in Responses}

InitQuery ==
    /\ schedule = <<>>
    /\ call \in QueryCalls
    /\ Fresh

\* The caller sees the decorated function's outcome.
Sees(r) ==
    /\ ret' = r.ret
    /\ raised' = r.raised
    /\ caught' = r.caught
    /\ out' = r.out
    /\ fetches' = r.fetches

CallCheckSlot ==
    /\ pc \in {"call", "returned"}
    /\ call.name = "check_slot"
    /\ Sees(check_slot(call.raw, call.response))
    /\ pc' = "returned"
    /\ UNCHANGED <<schedule, call, argv>>

CallShowBusy ==
    /\ pc \in {"call", "returned"}
    /\ call.name = "show_busy"
    /\ Sees(show_busy(call.response))
    /\ pc' = "returned"
    /\ UNCHANGED <<schedule, call, argv>>

CallFindFreeSlots ==
    /\ pc \in {"call", "returned"}
    /\ call.name = "find_free_slots"
    /\ Sees(find_free_slots(call.raw, call.response))
    /\ pc' = "returned"
    /\ UNCHANGED <<schedule, call, argv>>

CallFindSlot ==
    /\ pc \in {"call", "returned"}
    /\ call.name = "find_slot"
    /\ Sees(find_slot(call.raw, call.response))
    /\ pc' = "returned"
    /\ UNCHANGED <<schedule, call, argv>>

NextQuery == CallCheckSlot \/ CallShowBusy \/ CallFindFreeSlots \/ CallFindSlot

SpecQuery == InitQuery /\ [][NextQuery]_vars

(***************************************************************************)
(* parse_slot_input called on a slot text drawn by the initial state: the  *)
(* texts of the services and "D A-X-B", a time token of three parts.       *)
(***************************************************************************)
ParseSlotTexts ==
    RawSlotTexts
        \cup {<<d, <<abc[1], abc[2], abc[3]>>>> :
                d \in QueryDateTexts,
                abc \in QueryTimeTexts \X QueryTimeTexts \X QueryTimeTexts}

ParseCall(slot) == [name |-> "parse_slot_input", slot |-> slot]

InitParse ==
    /\ schedule = <<>>
    /\ call \in {ParseCall(slot) : slot \in ParseSlotTexts}
    /\ Fresh

CallParseSlotInput ==
    /\ pc \in {"call", "returned"}
    /\ call.name = "parse_slot_input"
    /\ LET r == parse_slot_input(call.slot)
       IN  /\ ret' = r.ret
           /\ raised' = r.raised
    /\ pc' = "returned"
    /\ UNCHANGED <<schedule, call, caught, out, fetches, argv>>

NextParse == CallParseSlotInput

SpecParse == InitParse /\ [][NextParse]_vars

(***************************************************************************)
(* main(): the four flags in order, each query on a fresh response.        *)
(* out, ret, caught and fetches are those of the last query run.           *)
(***************************************************************************)
NoFlag == [given |-> FALSE]

Flag(value) == [given |-> TRUE, value |-> value]

\* "if args.x:" on an optional string flag or a store_true flag
Truthy(flag) == flag.given

Namespace(check, busy, free, suitable) ==
    [check_slot |-> check, show_busy |-> busy, find_free_slot |-> free,
     find_suitable_slots |-> suitable]

AttributeError == "AttributeError: 'Namespace' object has no attribute"

\* args.<name>
GetAttr(namespace, name) ==
    IF name \in DOMAIN namespace
    THEN [raised |-> NoError, ret |-> namespace[name]]
    ELSE [raised |-> AttributeError, ret |-> NoFlag]

Argvs ==
    {Namespace(check, busy, free, suitable) :
        check \in {NoFlag, Flag(<<BadDate>>),
                   Flag(<<DateStr(1, "iso"), <<TimeStr(0), TimeStr(1)>>>>)},
        busy \in {NoFlag, Flag(TRUE)},
        free \in {NoFlag, Flag(DateStr(1, "iso"))},
        suitable \in {NoFlag, Flag(DurationStr(1)), Flag(BadDuration)}}

InitMain ==
    /\ schedule = <<>>
    /\ call = [name |-> "main"]
    /\ ret = None
    /\ raised = NoError
    /\ caught = NoError
    /\ out = <<>>
    /\ fetches = 0
    /\ argv \in Argvs
    /\ pc = "check_slot"

Skips ==
    UNCHANGED <<ret, raised, caught, out, fetches>>

MainCheckSlot ==
    /\ pc = "check_slot"
    /\ IF Truthy(argv.check_slot)
       THEN \E response \in Responses :
                Sees(check_slot(GetAttr(argv, "check_slot").ret.value, response))
       ELSE Skips
    /\ pc' = "show_busy"
    /\ UNCHANGED <<schedule, call, argv>>

MainShowBusy ==
    /\ pc = "show_busy"
    /\ IF Truthy(argv.show_busy)
       THEN \E response \in Responses : Sees(show_busy(response))
       ELSE Skips
    /\ pc' = "find_free_slot"
    /\ UNCHANGED <<schedule, call, argv>>

\* find_free_slots(args.find_slot): the argument is evaluated first, outside
\* the decorated function.
MainFindFreeSlots ==
    /\ pc = "find_free_slot"
    /\ IF Truthy(argv.find_free_slot)
       THEN LET arg == GetAttr(argv, "find_slot")
            IN  IF arg.raised # NoError
                THEN /\ raised' = arg.raised
                     /\ pc' = "crashed"
                     /\ UNCHANGED <<ret, caught, out, fetches>>
                ELSE /\ \E response \in Responses :
                            Sees(find_free_slots(arg.ret.value, response))
                     /\ pc' = "find_suitable_slots"
       ELSE Skips /\ pc' = "find_suitable_slots"
    /\ UNCHANGED <<schedule, call, argv>>

MainFindSlot ==
    /\ pc = "find_suitable_slots"
    /\ IF Truthy(argv.find_suitable_slots)
       THEN \E response \in Responses :
                Sees(find_slot(GetAttr(argv, "find_suitable_slots").ret.value, response))
       ELSE Skips
    /\ pc' = "done"
    /\ UNCHANGED <<schedule, call, argv>>

NextMain == MainCheckSlot \/ MainShowBusy \/ MainFindFreeSlots \/ MainFindSlot

SpecMain == InitMain /\ [][NextMain]_vars

(***************************************************************************)
(* Properties of free_slots_at_date (SpecDay)                              *)
(***************************************************************************)
\* The entry of the schedule the last free_slots_at_date call looked up.
CalledEntry == Get(schedule, strftime_date(call.date_key))

FreeReturned ==
    /\ Returned("free_slots_at_date")
    /\ HasKey(schedule, strftime_date(call.date_key))

\* The busy list the claims speak of: sorted by start, pairwise
\* non-overlapping, inside the day's window.
ValidBusy(day, slots) ==
    /\ SortedByStart(slots)
    /\ NonOverlapping(slots)
    /\ Within(day, slots)

\* The clock unit [t, t+1) lies in the interval [x.start, x.end).
Covers(x, t) == x.start <= t /\ t < x.end

CoverCount(slots, t) == Cardinality({i \in 1..Len(slots) : Covers(slots[i], t)})

Tiles(day, busy, free) ==
    /\ \A t \in 0..(MaxTime - 1) :
            CoverCount(busy, t) + CoverCount(free, t) = (IF Covers(day, t) THEN 1 ELSE 0)
    /\ \A i \in 1..Len(free) : free[i].start < free[i].end
    /\ \A i \in 1..Len(free) - 1 : free[i].end <= free[i + 1].start

\* C1: for a busy list that is sorted by start, non-overlapping and inside
\* the day's window, the free intervals free_slots_at_date returns and the
\* busy intervals tile the window: each clock unit of the window lies in
\* exactly one of them, none outside it, and the free intervals ascend.
C1_FreeAndBusyTileWindow ==
    (FreeReturned /\ ValidBusy(CalledEntry.day, CalledEntry.slots))
        => Tiles(CalledEntry.day, CalledEntry.slots, ret)

C1_Witness ==
    /\ FreeReturned
    /\ ValidBusy(CalledEntry.day, CalledEntry.slots)
    /\ Len(CalledEntry.slots) >= 2
    /\ Len(ret) >= 2

SingleWholeWindow(day, slots) ==
    /\ Len(slots) = 1
    /\ slots[1].start = day.start
    /\ slots[1].end = day.end

\* A chain of adjacent busy intervals from day.start to day.end (no interval
\* at all when the window is empty).
FullyBooked(day, slots) ==
    IF slots = <<>>
    THEN day.start = day.end
    ELSE /\ slots[1].start = day.start
         /\ slots[Len(slots)].end = day.end
         /\ \A i \in 1..Len(slots) - 1 : slots[i].end = slots[i + 1].start

\* C2 as claimed, for a day whose window is not empty: the result is empty
\* if and only if the busy list is one interval equal to the window.
C2_EmptyIffSingleWholeWindow ==
    (/\ FreeReturned
     /\ CalledEntry.day.start < CalledEntry.day.end
     /\ ValidBusy(CalledEntry.day, CalledEntry.slots))
        => (ret = <<>> <=> SingleWholeWindow(CalledEntry.day, CalledEntry.slots))

\* C2, amended: the result is empty if and only if the busy intervals
\* together cover the window: one interval equal to it, several adjacent
\* intervals from day.start to day.end, or none when the window is empty.
C2_EmptyIffFullyBooked ==
    (FreeReturned /\ ValidBusy(CalledEntry.day, CalledEntry.slots))
        => (ret = <<>> <=> FullyBooked(CalledEntry.day, CalledEntry.slots))

C2_Witness ==
    /\ FreeReturned
    /\ ValidBusy(CalledEntry.day, CalledEntry.slots)
    /\ Len(CalledEntry.slots) >= 2
    /\ ret = <<>>

\* C3: with an empty busy list the result is the one interval
\* [day.start, day.end) when day.start # day.end, and empty otherwise.
C3_EmptyBusyGivesWindow ==
    (FreeReturned /\ CalledEntry.slots = <<>>)
        => ret = (IF CalledEntry.day.start # CalledEntry.day.end
                  THEN <<TimeSlot(CalledEntry.day.id, CalledEntry.day.start,
                                  CalledEntry.day.end)>>
                  ELSE <<>>)

C3_Witness ==
    /\ FreeReturned
    /\ CalledEntry.slots = <<>>
    /\ CalledEntry.day.start # CalledEntry.day.end
    /\ Len(ret) = 1

(***************************************************************************)
(* Properties of can_schedule_slot (SpecCan)                               *)
(***************************************************************************)
\* C7: can_schedule_slot(r, F) is true if and only if some f in F has
\* f.start <= r.start and r.end <= f.end; equal bounds count as contained
\* and an empty F gives false.
C7_CanScheduleIffContained ==
    Returned("can_schedule_slot")
        => /\ ret \in BOOLEAN
           /\ ret <=> \E i \in 1..Len(call.free_slots) :
                          /\ call.free_slots[i].start <= call.slot.start
                          /\ call.slot.end <= call.free_slots[i].end
           /\ call.free_slots = <<>> => ret = FALSE

C7_Witness ==
    /\ Returned("can_schedule_slot")
    /\ ret = TRUE
    /\ Len(call.free_slots) >= 2
    /\ \A i \in 1..Len(call.free_slots) :
            check_time_boundaries(call.slot, call.free_slots[i])
                => /\ call.free_slots[i].start = call.slot.start
                   /\ call.free_slots[i].end = call.slot.end

(***************************************************************************)
(* Properties of find_suitable_slot (SpecSched)                            *)
(***************************************************************************)
SuitableReturned == Returned("find_suitable_slot")

\* The free intervals of the date a key of the schedule denotes.
FreeOfKey(key) == free_slots_at_date(schedule, strptime_date(key)).ret

LongEnough(x, m) == x.end - x.start >= m

\* The positions of the free intervals of a key that are at least m long.
Qualifying(key, m) ==
    {j \in 1..Len(FreeOfKey(key)) : LongEnough(FreeOfKey(key)[j], m)}

KeySeq(dict) == [i \in 1..Len(dict) |-> dict[i].key]

RECURSIVE IsSubseq(_, _)
IsSubseq(a, b) ==
    IF a = <<>> THEN TRUE
    ELSE IF b = <<>> THEN FALSE
    ELSE IF Head(a) = Head(b) THEN IsSubseq(Tail(a), Tail(b))
    ELSE IsSubseq(a, Tail(b))

\* C5: the dates of the result are a subsequence of the dates of the input
\* and each stored list is a subsequence of the free intervals
\* free_slots_at_date gives for that date.
C5_SuitableKeepsOrder ==
    (SuitableReturned /\ raised = NoError)
        => /\ IsSubseq(KeySeq(ret), KeySeq(schedule))
           /\ \A i \in 1..Len(ret) : IsSubseq(ret[i].slots, FreeOfKey(ret[i].key))

C5_Witness ==
    /\ SuitableReturned
    /\ raised = NoError
    /\ Len(ret) >= 2
    /\ \E i \in 1..Len(ret) : Len(ret[i].slots) >= 2

\* C6: a zero or negative duration raises ValueError "Invalid duration" and
\* nothing is returned, whatever the schedule (the empty one included); a
\* strictly positive duration does not raise it.
C6_NonPositiveDurationRaises ==
    SuitableReturned
        => /\ call.duration <= 0 => (raised = InvalidDuration /\ ret = None)
           /\ call.duration > 0 => raised # InvalidDuration

C6_Witness ==
    /\ SuitableReturned
    /\ call.duration = 0
    /\ schedule = <<>>
    /\ raised = InvalidDuration

\* C9: no call of free_slots_at_date or find_suitable_slot changes the
\* schedule (every Day keeps its start and end, every busy list its
\* intervals and their order), and free_slots_at_date called again on the
\* same schedule and date returns what it returned before.
C9_CallsLeaveScheduleAlone ==
    [][/\ schedule' = schedule
       /\ (Returned("free_slots_at_date") /\ call' = call) => ret' = ret]_vars

\* A call whose walk moved its cursor off the stored day.start.
C9_Witness ==
    /\ FreeReturned
    /\ CalledEntry.slots # <<>>
    /\ CalledEntry.slots[1].start = CalledEntry.day.start
    /\ ret # <<>>

(***************************************************************************)
(* Properties of the services (SpecQuery) and of main() (SpecMain)         *)
(***************************************************************************)
QueryReturned ==
    /\ pc = "returned"
    /\ call.name \in {"check_slot", "show_busy", "find_free_slots", "find_slot"}

ErrorLines(lines) == {i \in 1..Len(lines) : lines[i].kind = "ERROR"}

\* The response is a failed fetch: a timeout or a status other than 200.
FetchFails(response) == response.kind = "timeout" \/ response.status # HttpOk

\* C8: no exception escapes main(): whatever the flags, an error is caught
\* and shown as an ERROR line, and main() goes on to the next flag.
C8_NoExceptionEscapesMain ==
    /\ raised = NoError
    /\ pc # "crashed"
    /\ caught # NoError => out[Len(out)] = ErrorLine(caught)

\* C10: a query fetches at most once; when the fetch fails or a later step
\* raises it prints the one line "ERROR: <message>" and nothing else and
\* returns nothing; a query that does not fail prints no ERROR line.
C10_QueryFailsWithOneErrorLine ==
    QueryReturned
        => /\ fetches <= 1
           /\ raised = NoError
           /\ (fetches = 1 /\ FetchFails(call.response)) => caught # NoError
           /\ caught # NoError => (out = <<ErrorLine(caught)>> /\ ret = None)
           /\ caught = NoError => ErrorLines(out) = {}

\* A query that fails after its fetch succeeded.
C10_Witness ==
    /\ QueryReturned
    /\ fetches = 1
    /\ ~FetchFails(call.response)
    /\ caught # NoError
    /\ out = <<ErrorLine(caught)>>

(***************************************************************************)
(* check_slot against the feed it fetched (SpecQuery)                      *)
(***************************************************************************)
\* The text "YYYY-MM-DD HH:MM-HH:MM" with start before end.
WellFormedSlot(raw_slot) ==
    /\ Len(raw_slot) = 2
    /\ raw_slot[1].form = "iso"
    /\ Len(raw_slot[2]) = 2
    /\ raw_slot[2][1].ok
    /\ raw_slot[2][2].ok
    /\ raw_slot[2][1].time < raw_slot[2][2].time

RequestedSlot(raw_slot) ==
    Slot(raw_slot[1].date, raw_slot[2][1].time, raw_slot[2][2].time)

FetchSucceeds(response) ==
    response.kind = "http" /\ response.status = HttpOk /\ response.body.valid

\* The clock unit [t, t+1) of the date is working time that no timeslot of
\* the feed's day of that date covers.
FreeUnit(feed, date, t) ==
    \E i \in 1..Len(feed.days) :
        /\ feed.days[i].date = date
        /\ Covers(feed.days[i], t)
        /\ \A j \in 1..Len(feed.timeslots) :
                feed.timeslots[j].day_id = feed.days[i].id
                    => ~Covers(feed.timeslots[j], t)

HasFreeInterval(feed, date) == \E t \in 0..(SchedMaxTime - 1) : FreeUnit(feed, date, t)

LiesInFreeInterval(feed, slot) ==
    \A t \in slot.start..(slot.end - 1) : FreeUnit(feed, slot.date, t)

CheckSlotAnswered ==
    /\ Returned("check_slot")
    /\ WellFormedSlot(call.raw)
    /\ FetchSucceeds(call.response)

DatesAscend(sched) ==
    /\ \A k \in 1..Len(sched) : sched[k].key = strftime_date(sched[k].day.date)
    /\ \A k \in 1..Len(sched) - 1 : sched[k].day.date < sched[k + 1].day.date

\* The entry's busy list holds the raw timeslots of the entry's day, each
\* once (raw timeslots differ in their id), sorted by start.
BusyOfItsDay(raw_data, entry) ==
    LET own == {j \in 1..Len(raw_data.timeslots) :
                    raw_data.timeslots[j].day_id = entry.day.id}
    IN  /\ SortedByStart(entry.slots)
        /\ Len(entry.slots) = Cardinality(own)
        /\ {entry.slots[m] : m \in 1..Len(entry.slots)}
                = {raw_data.timeslots[j] : j \in own}

EveryDayOnce(raw_data, sched) ==
    /\ Len(sched) = Len(raw_data.days)
    /\ \A i \in 1..Len(raw_data.days) :
            \E k \in 1..Len(sched) : sched[k].day = raw_data.days[i]

Places(sched, timeslot) ==
    {km \in (1..Len(sched)) \X (1..MaxRawSlots) :
        km[2] <= Len(sched[km[1]].slots) /\ sched[km[1]].slots[km[2]] = timeslot}

EverySlotOfADayOnce(raw_data, sched) ==
    \A j \in 1..Len(raw_data.timeslots) :
        (\E i \in 1..Len(raw_data.days) :
            raw_data.days[i].id = raw_data.timeslots[j].day_id)
            => Cardinality(Places(sched, raw_data.timeslots[j])) = 1

DistinctDays(raw_data) ==
    \A i, k \in 1..Len(raw_data.days) :
        i # k => /\ raw_data.days[i].date # raw_data.days[k].date
                 /\ raw_data.days[i].id # raw_data.days[k].id

FormatSortsAndGroups ==
    /\ DatesAscend(ret)
    /\ \A k \in 1..Len(ret) : BusyOfItsDay(call.raw_data, ret[k])

\* C12 as claimed: for every raw data set the schedule's dates ascend, each
\* date's busy list is sorted by start and holds exactly the raw timeslots
\* of that day's id, and every raw day and every raw timeslot of a day is in
\* the schedule exactly once.
C12_FormatKeepsEveryDayAndSlot ==
    Returned("format_data")
        => /\ FormatSortsAndGroups
           /\ EveryDayOnce(call.raw_data, ret)
           /\ EverySlotOfADayOnce(call.raw_data, ret)

\* C12, amended: the dates ascend and each date's busy list is sorted by
\* start and holds exactly the raw timeslots of that day's id, for every
\* raw data set; every raw day and every raw timeslot of a day is in the
\* schedule exactly once when the raw days differ pairwise in date and id.
C12_FormatSortsAndKeepsDistinctDays ==
    Returned("format_data")
        => /\ FormatSortsAndGroups
           /\ DistinctDays(call.raw_data)
                => /\ EveryDayOnce(call.raw_data, ret)
                   /\ EverySlotOfADayOnce(call.raw_data, ret)

\* Two days given latest first, two timeslots of one day given latest first.
C12_Witness ==
    /\ Returned("format_data")
    /\ DistinctDays(call.raw_data)
    /\ Len(call.raw_data.days) = 2
    /\ call.raw_data.days[1].date > call.raw_data.days[2].date
    /\ Len(call.raw_data.timeslots) = 2
    /\ call.raw_data.timeslots[1].day_id = call.raw_data.timeslots[2].day_id
    /\ call.raw_data.timeslots[1].start > call.raw_data.timeslots[2].start
    /\ \E k \in 1..Len(ret) : Len(ret[k].slots) = 2

(***************************************************************************)
(* parse_slot_input (SpecParse)                                            *)
(***************************************************************************)
ValueErrors == {InvalidSlotFormat, StartNotBeforeEnd}

\* A date text followed by a time range with start before end, read as
\* widely as the text allows: the date in any form strptime takes, the
\* range a first and a last time, joined by "-" or set apart by blanks.
DateThenTimeRange(slot) ==
    /\ Len(slot) >= 2
    /\ strptime_ok(slot[1])
    /\ LET texts == TimeTexts(slot)
       IN  /\ Len(texts) >= 2
           /\ texts[1].ok
           /\ texts[Len(texts)].ok
           /\ texts[1].time < texts[Len(texts)].time

\* C13: parse_slot_input returns a Slot only for a date followed by a time
\* range with start before end; for every other text (empty, no date, no
\* time range, no end time, a date or time that does not parse, start not
\* before end) it raises ValueError and no other kind of exception.
C13_ParseRaisesOnlyValueError ==
    Returned("parse_slot_input")
        => /\ raised = NoError => DateThenTimeRange(call.slot)
           /\ ~DateThenTimeRange(call.slot) => raised \in ValueErrors

====
